---- MODULE Spec2Model ----
(***************************************************************************)
(* A model of financepy/products/bonds/bond_zero.py: the zero coupon bond  *)
(* BondZero, its accrual cache and its pricing operations.                 *)
(*                                                                         *)
(* Numbers.  Python floats are modelled by exact rationals <<n, d>> in     *)
(* lowest terms with d > 0.  Dates are day numbers (integers), a date      *)
(* difference is an integer number of days.  A missing value (None, or an  *)
(* attribute that was never assigned) is the empty tuple <<>>; inf and nan  *)
(* are pairs with d <= 0.  The bond itself is None until it is constructed.*)
(***************************************************************************)
EXTENDS Integers, Sequences, FiniteSets, TLC

\* ------------------------------------------------------------------------
\* Exact rational arithmetic
\* ------------------------------------------------------------------------

Abs(n) == IF n < 0 THEN -n ELSE n

RECURSIVE GCD(_, _)
GCD(a, b) == IF b = 0 THEN a ELSE GCD(b, a % b)

\* the rational n/d (d # 0) in lowest terms with a positive denominator
RNorm(n, d) ==
    LET g == GCD(Abs(n), Abs(d))
        s == IF d < 0 THEN -1 ELSE 1
    IN  <<s * (n \div g), s * (d \div g)>>

R(n) == <<n, 1>>
RZero == <<0, 1>>
ROne == <<1, 1>>

RNeg(a) == <<-a[1], a[2]>>
RAdd(a, b) ==
    LET gd == GCD(a[2], b[2])
        gn0 == GCD(Abs(a[1]), Abs(b[1]))
        gn == IF gn0 = 0 THEN 1 ELSE gn0
        \* a + b = gn * x / den, reduced before the last product is taken
        x == (a[1] \div gn) * (b[2] \div gd) + (b[1] \div gn) * (a[2] \div gd)
        den == (a[2] \div gd) * b[2]
        g2 == GCD(Abs(x), den)
        g3 == GCD(gn, den \div g2)
    IN  RNorm((gn \div g3) * (x \div g2), (den \div g2) \div g3)
RSub(a, b) == RAdd(a, RNeg(b))
RMul(a, b) ==
    LET g1 == GCD(Abs(a[1]), b[2])
        g2 == GCD(Abs(b[1]), a[2])
    IN  <<(a[1] \div g1) * (b[1] \div g2), (a[2] \div g2) * (b[2] \div g1)>>
RInv(a) == IF a[1] < 0 THEN <<-a[2], -a[1]>> ELSE <<a[2], a[1]>>
RDiv(a, b) == RMul(a, RInv(b))
RSign(a) == IF a[1] > 0 THEN 1 ELSE IF a[1] < 0 THEN -1 ELSE 0
RLt(a, b) == RSign(RSub(a, b)) < 0
RLe(a, b) == RSign(RSub(a, b)) <= 0
RMax(a, b) == IF RLt(a, b) THEN b ELSE a

RECURSIVE RPowInt(_, _)
RPowInt(x, n) == IF n = 0 THEN ROne ELSE RMul(x, RPowInt(x, n - 1))

\* r^n, saturating at cap + 1 so that no intermediate product overflows
RECURSIVE SatPow(_, _, _)
SatPow(r, n, cap) ==
    IF n = 0 THEN 1
    ELSE LET p == SatPow(r, n - 1, cap)
         IN  IF r # 0 /\ p > cap \div r THEN cap + 1 ELSE p * r

\* the largest r in lo..hi with r^n <= m
RECURSIVE BisectRoot(_, _, _, _)
BisectRoot(m, n, lo, hi) ==
    IF lo = hi THEN lo
    ELSE LET mid == (lo + hi + 1) \div 2
         IN  IF SatPow(mid, n, m) <= m THEN BisectRoot(m, n, mid, hi)
             ELSE BisectRoot(m, n, lo, mid - 1)

IRoot(m, n) == BisectRoot(m, n, 0, IF m < 65536 THEN m ELSE 65536)
IsPerfectPower(m, n) == SatPow(IRoot(m, n), n, m) = m

\* The real power x^q of a positive rational x to a rational exponent q is
\* itself rational exactly when numerator and denominator of x are perfect
\* q[2]-th powers.  PowExact tells whether it is, RPow computes it.
PowExact(x, q) ==
    \/ q[2] = 1
    \/ /\ x[1] > 0
       /\ IsPerfectPower(x[1], q[2])
       /\ IsPerfectPower(x[2], q[2])
RPow(x, q) ==
    LET root == IF q[2] = 1 THEN x
                ELSE <<IRoot(x[1], q[2]), IRoot(x[2], q[2])>>
        p == RPowInt(root, Abs(q[1]))
    IN  IF q[1] < 0 THEN RInv(p) ELSE p

\* ------------------------------------------------------------------------
\* Bounds of the model and program constants
\* ------------------------------------------------------------------------

MaxTenor == 2        \* longest bond, in years
MaxExDiv == 1        \* largest num_ex_dividend_days
MaxPrices == 2       \* longest list of prices handed to an inverse operation

gDaysInYear == 365
DateStep == gDaysInYear \div 5       \* the date grid: fifths of a year

None == <<>>

\* how an operation ends: "ok" or the error it raises
ConstructionError == "FinError: Issue Date must preceded maturity date"
ConventionError == "FinError: Need to use YTMCalcType.ZERO"
DegenerateScheduleError == "FinError: No coupons left"
MalformedInstrumentError == "FinError: not enough flow dates"
CurveBeforeError == "FinError: Bond settles before Discount curve date"
CurveAfterError == "FinError: Bond settles after it matures"
PriceTypeError == "FinError: Unknown type for clean_price"
AttributeError == "AttributeError"
UnboundLocalError == "UnboundLocalError"
ZeroDivisionError == "ZeroDivisionError"
NonConvergence == "RuntimeError: failed to converge"
BadBracket == "ValueError: f(a) and f(b) must have different signs"

VARIABLES
    bond,      \* the BondZero instance: its terms and its accrual cache
    result     \* the last call made on it and how it ended

vars == <<bond, result>>

\* ------------------------------------------------------------------------
\* Collaborators (financepy.utils), by their interface
\* ------------------------------------------------------------------------

\* DayCount(ZERO).year_frac(dt1, dt2, dt3, freq) -> (acc_factor, num, den)
year_frac(dt1, dt2, dt3) == <<RNorm(dt2 - dt1, gDaysInYear), dt2 - dt1, gDaysInYear>>

\* Calendar(WEEKEND): Saturdays and Sundays are not business days
is_business_day(dt) == (dt % 7) \notin {5, 6}

\* Calendar.add_business_days(dt, -n), n >= 0: n business days back
RECURSIVE add_business_days(_, _)
add_business_days(dt, n) ==
    IF n = 0 THEN dt
    ELSE LET prev == dt - 1
         IN  add_business_days(prev, IF is_business_day(prev) THEN n - 1 ELSE n)

\* ------------------------------------------------------------------------
\* BondZero
\* ------------------------------------------------------------------------

\* __init__: the instance a successful construction leaves
BondZero(issue_date, maturity_date, issue_price, face_amount) ==
    [ issue_date |-> issue_date,
      maturity_date |-> maturity_date,
      accrual_type |-> "ZERO",
      face_amount |-> face_amount,
      issue_price |-> issue_price,
      par |-> R(100),
      redemption |-> ROne,
      freq_type |-> "ZERO",
      coupon_dates |-> <<issue_date, maturity_date>>,
      payment_dates |-> <<issue_date, maturity_date>>,
      flow_amounts |-> <<RZero, RZero>>,
      accrued_interest |-> None,
      accrued_days |-> RZero,
      alpha |-> RZero,
      pcd |-> <<>>,        \* _pcd and _ncd are not assigned by __init__
      ncd |-> <<>> ]

\* BondZero(...): a construction that raises leaves no instance
__init__(issue_date, maturity_date, issue_price, face_amount) ==
    IF issue_date >= maturity_date
    THEN [self |-> None, status |-> ConstructionError]
    ELSE [self |-> BondZero(issue_date, maturity_date, issue_price, face_amount),
          status |-> "ok"]

\* what a method leaves behind: the instance, how it ended, what it returned,
\* and the root searches it ran, in order
Return(self, value) ==
    [self |-> self, status |-> "ok", shape |-> "scalar", value |-> <<value>>, path |-> "-",
     search |-> <<>>]
Raise(self, error) ==
    [self |-> self, status |-> error, shape |-> "none", value |-> <<>>, path |-> "-",
     search |-> <<>>]

\* F applied to the value of v, v being evaluated once
Eval(v, F(_)) == CHOOSE out \in {F(x) : x \in {v}} : TRUE

\* a call followed by the rest of the method body: an exception raised by
\* the call leaves the method at once, else the body goes on with what the
\* call returned
Bind(call, Rest(_)) == Eval(call, LAMBDA r : IF r.status # "ok" THEN r ELSE Rest(r))

\* a root search: the solver, the iteration budget it ran under, the target
\* of its objective (None for the net present value) and how it ended
Search(solver, maxiter, target, status, value) ==
    [solver |-> solver, maxiter |-> maxiter, target |-> target, status |-> status,
     value |-> value]

\* the outcome of a call to a solver, recorded as a root search
Searched(solver, maxiter, target, outcome) ==
    Eval(outcome, LAMBDA r :
      [r EXCEPT !.search = <<Search(solver, maxiter, target, r.status, r.value)>>])

\* the coupon dates after the first that are on or after settlement
FlowsFrom(self, settlement_date) ==
    {i \in 2..Len(self.coupon_dates) : self.coupon_dates[i] >= settlement_date}

Min(S) == CHOOSE x \in S : \A y \in S : x <= y
Max(S) == CHOOSE x \in S : \A y \in S : x >= y

\* calc_accrued_interest accruing by the day count fraction of the coupon
\* period instead of by elapsed days over the life of the bond
calc_accrued_interest_by_year_frac(self, settlement_date, num_ex_dividend_days) ==
    LET num_flows == Len(self.coupon_dates)
        found == FlowsFrom(self, settlement_date)
        s1 == IF found = {} THEN self
              ELSE [self EXCEPT !.pcd = <<self.coupon_dates[Min(found) - 1]>>,
                                !.ncd = <<self.coupon_dates[Min(found)]>>]
    IN  IF num_flows = 0 THEN Raise(self, MalformedInstrumentError)
        ELSE IF s1.ncd = <<>> THEN Raise(s1, AttributeError)
        ELSE
          LET exDividend_date == add_business_days(s1.ncd[1], num_ex_dividend_days)
              yf == year_frac(s1.pcd[1], settlement_date, s1.ncd[1])
              acc_factor == IF settlement_date > exDividend_date
                            THEN RSub(yf[1], ROne) ELSE yf[1]
              interest == RMul(RSub(self.par, self.issue_price), acc_factor)
              accrued == RDiv(RMul(interest, self.face_amount), self.par)
          IN  Return([s1 EXCEPT !.alpha = RSub(ROne, acc_factor),
                                !.accrued_interest = accrued,
                                !.accrued_days = R(yf[2])],
                     accrued)

calc_accrued_interest(self, settlement_date, num_ex_dividend_days) ==
    LET num_flows == Len(self.coupon_dates)
        found == FlowsFrom(self, settlement_date)
        \* the loop assigns _pcd and _ncd only when it finds a period
        s1 == IF found = {} THEN self
              ELSE [self EXCEPT !.pcd = <<self.coupon_dates[Min(found) - 1]>>,
                                !.ncd = <<self.coupon_dates[Min(found)]>>]
    IN  IF num_flows = 0 THEN Raise(self, MalformedInstrumentError)
        ELSE IF s1.ncd = <<>> THEN Raise(s1, AttributeError)
        ELSE
          LET exDividend_date == add_business_days(s1.ncd[1], num_ex_dividend_days)
              yf == year_frac(s1.pcd[1], settlement_date, s1.ncd[1])
              acc_factor == IF settlement_date > exDividend_date
                            THEN RSub(yf[1], ROne) ELSE yf[1]
              interest == RDiv(RMul(RSub(self.par, self.issue_price),
                                    R(settlement_date - self.issue_date)),
                               R(self.maturity_date - self.issue_date))
              accrued == RDiv(RMul(interest, self.face_amount), self.par)
          IN  Return([s1 EXCEPT !.alpha = RSub(ROne, acc_factor),
                                !.accrued_interest = accrued,
                                !.accrued_days = R(yf[2])],
                     accrued)

\* 1.2345e-11, the shift that keeps the yield off zero, is far below the
\* resolution of the yields of this model
ytm_shift == RZero

\* full_price_from_ytm refreshing the accrual cache before it checks the
\* convention
full_price_from_ytm_refresh_first(self, settlement_date, ytm, convention) ==
    Bind(calc_accrued_interest(self, settlement_date, 0), LAMBDA a :
      LET y == RAdd(ytm, ytm_shift)
          n == Cardinality({i \in 1..Len(self.coupon_dates) :
                               self.coupon_dates[i] > settlement_date}) - 1
          acc_factor == year_frac(settlement_date, self.maturity_date,
                                  self.maturity_date)[1]
          pv == IF RLe(acc_factor, ROne)
                THEN RDiv(self.par, RAdd(ROne, RMul(y, acc_factor)))
                ELSE RDiv(self.par, RPow(RAdd(ROne, y), acc_factor))
      IN  IF convention # "ZERO" THEN Raise(a.self, ConventionError)
          ELSE IF n < 0 THEN Raise(a.self, DegenerateScheduleError)
          ELSE Return(a.self, pv))

full_price_from_ytm(self, settlement_date, ytm, convention) ==
    IF convention # "ZERO" THEN Raise(self, ConventionError)
    ELSE Bind(calc_accrued_interest(self, settlement_date, 0), LAMBDA a :
      LET y == RAdd(ytm, ytm_shift)
          n == Cardinality({i \in 1..Len(self.coupon_dates) :
                               self.coupon_dates[i] > settlement_date}) - 1
          acc_factor == year_frac(settlement_date, self.maturity_date,
                                  self.maturity_date)[1]
          pv == IF RLe(acc_factor, ROne)
                THEN RDiv(self.par, RAdd(ROne, RMul(y, acc_factor)))
                ELSE RDiv(self.par, RPow(RAdd(ROne, y), acc_factor))
      IN  IF n < 0 THEN Raise(a.self, DegenerateScheduleError)
          ELSE Return(a.self, pv))

\* arithmetic on the cached accrued interest while it is still None
NoneTypeError == "TypeError: unsupported operand type(s): NoneType"

\* principal subtracting the accrued interest that was cached when it was
\* called
principal_cached(self, settlement_date, y, convention) ==
    Bind(full_price_from_ytm(self, settlement_date, y, convention), LAMBDA fp :
      LET full_price == fp.value[1]
          p == RDiv(RMul(full_price, fp.self.face_amount), fp.self.par)
      IN  IF self.accrued_interest = None THEN Raise(fp.self, NoneTypeError)
          ELSE Return(fp.self, RSub(p, self.accrued_interest)))

principal(self, settlement_date, y, convention) ==
    Bind(full_price_from_ytm(self, settlement_date, y, convention), LAMBDA fp :
      LET full_price == fp.value[1]
          p == RDiv(RMul(full_price, fp.self.face_amount), fp.self.par)
      IN  IF fp.self.accrued_interest = None THEN Raise(fp.self, NoneTypeError)
          ELSE Return(fp.self, RSub(p, fp.self.accrued_interest)))

dy == <<1, 10000>>   \* 1 basis point

dollar_duration(self, settlement_date, ytm, convention) ==
    Bind(full_price_from_ytm(self, settlement_date, RSub(ytm, dy), convention), LAMBDA p0 :
    Bind(full_price_from_ytm(p0.self, settlement_date, RAdd(ytm, dy), convention), LAMBDA p2 :
      Return(p2.self, RDiv(RDiv(RNeg(RSub(p2.value[1], p0.value[1])), dy), R(2)))))

macauley_duration(self, settlement_date, ytm, convention) ==
    Bind(dollar_duration(self, settlement_date, ytm, convention), LAMBDA dd :
    Bind(full_price_from_ytm(dd.self, settlement_date, ytm, convention), LAMBDA fp :
      Return(fp.self, RDiv(RMul(dd.value[1], RAdd(ROne, ytm)), fp.value[1]))))

modified_duration(self, settlement_date, ytm, convention) ==
    Bind(dollar_duration(self, settlement_date, ytm, convention), LAMBDA dd :
    Bind(full_price_from_ytm(dd.self, settlement_date, ytm, convention), LAMBDA fp :
      Return(fp.self, RDiv(dd.value[1], fp.value[1]))))

convexity_from_ytm(self, settlement_date, ytm, convention) ==
    Bind(full_price_from_ytm(self, settlement_date, RSub(ytm, dy), convention), LAMBDA p0 :
    Bind(full_price_from_ytm(p0.self, settlement_date, ytm, convention), LAMBDA p1 :
    Bind(full_price_from_ytm(p1.self, settlement_date, RAdd(ytm, dy), convention), LAMBDA p2 :
      Return(p2.self,
             RDiv(RDiv(RDiv(RDiv(RSub(RAdd(p2.value[1], p0.value[1]),
                                      RMul(R(2), p1.value[1])),
                                 dy), dy), p1.value[1]), p2.self.par)))))

clean_price_from_ytm(self, settlement_date, ytm, convention) ==
    Bind(full_price_from_ytm(self, settlement_date, ytm, convention), LAMBDA fp :
      IF fp.self.accrued_interest = None THEN Raise(fp.self, NoneTypeError)
      ELSE LET accrued_amount == RDiv(RMul(fp.self.accrued_interest, fp.self.par),
                                      fp.self.face_amount)
           IN  Return(fp.self, RSub(fp.value[1], accrued_amount)))

\* DiscountCurve: a valuation (anchor) date and a simply compounded rate;
\* df(dt) = 1 / (1 + rate * (dt - valuation_date) / 365)
curve_df(curve, dt) ==
    RInv(RAdd(ROne, RMul(curve.rate, RNorm(dt - curve.valuation_date, gDaysInYear))))

\* a survival curve is a DiscountCurve read through survival_prob
survival_prob(curve, dt) == curve_df(curve, dt)

\* full_price_from_discount_curve refreshing the accrual cache first, as the
\* clean price does
full_price_from_discount_curve_refreshing(self, settlement_date, discount_curve) ==
    Eval(calc_accrued_interest(self, settlement_date, 0), LAMBDA a :
      IF settlement_date < discount_curve.valuation_date
      THEN Raise(a.self, CurveBeforeError)
      ELSE IF settlement_date > self.maturity_date
      THEN Raise(a.self, CurveAfterError)
      ELSE
        LET dfSettle == curve_df(discount_curve, settlement_date)
            later == FlowsFrom(self, settlement_date)
            df == IF later = {} THEN ROne
                  ELSE curve_df(discount_curve, self.coupon_dates[Max(later)])
            px == RDiv(RMul(df, self.redemption), dfSettle)
        IN  Return(a.self, RMul(px, self.par)))

full_price_from_discount_curve(self, settlement_date, discount_curve) ==
    IF settlement_date < discount_curve.valuation_date
    THEN Raise(self, CurveBeforeError)
    ELSE IF settlement_date > self.maturity_date
    THEN Raise(self, CurveAfterError)
    ELSE
      LET dfSettle == curve_df(discount_curve, settlement_date)
          later == FlowsFrom(self, settlement_date)
          \* the loop leaves df at the last coupon date it visited, else 1.0
          df == IF later = {} THEN ROne
                ELSE curve_df(discount_curve, self.coupon_dates[Max(later)])
          px == RDiv(RMul(df, self.redemption), dfSettle)
      IN  Return(self, RMul(px, self.par))

clean_price_from_discount_curve(self, settlement_date, discount_curve) ==
    Bind(calc_accrued_interest(self, settlement_date, 0), LAMBDA a :
    Bind(full_price_from_discount_curve(a.self, settlement_date, discount_curve), LAMBDA fp :
      IF fp.self.accrued_interest = None THEN Raise(fp.self, NoneTypeError)
      ELSE LET accrued == RDiv(RMul(fp.self.accrued_interest, fp.self.par),
                               fp.self.face_amount)
           IN  Return(fp.self, RSub(fp.value[1], accrued))))

current_yield(self, clean_price) ==
    LET tenor == year_frac(self.issue_date, self.maturity_date, self.maturity_date)[1]
        virtual_coupon == RDiv(RSub(self.par, self.issue_price), tenor)
    IN  IF clean_price = RZero THEN Raise(self, ZeroDivisionError)
        ELSE Return(self, RDiv(virtual_coupon, clean_price))

\* ------------------------------------------------------------------------
\* Inverse operations: yield and OAS from price
\* ------------------------------------------------------------------------

\* the yields and spreads a root search can return in this model
SolverYields == {<<-1, 20>>, <<0, 1>>, <<1, 20>>, <<1, 2>>}
SolverSpreads == {<<0, 1>>, <<1, 100>>, <<1, 20>>}

\* _f: the objective of the price to yield search
_f(y, bond_, settlement_date, price, convention) ==
    Bind(full_price_from_ytm(bond_, settlement_date, y, convention), LAMBDA px :
      Return(px.self, RSub(px.value[1], price)))

\* scipy.optimize.newton(_f, x0=0.05, tol=1e-8, maxiter=50): the objective
\* is first evaluated at x0, so whatever it raises there reaches the caller;
\* the search ends at a zero of the objective or fails to converge
newton_f(self, settlement_date, full_price, convention, maxiter) ==
    Searched("newton", maxiter, full_price,
      Bind(_f(<<1, 20>>, self, settlement_date, full_price, convention), LAMBDA q0 :
        LET zeros == {y \in SolverYields :
                        _f(y, self, settlement_date, full_price, convention).value[1] = RZero}
        IN  IF zeros = {} THEN Raise(q0.self, NonConvergence)
            ELSE Return(q0.self, CHOOSE y \in zeros : TRUE)))

\* the price argument as Python sees it: its type and its numbers
ScalarTypes == {"float", "np.float64"}
VectorTypes == {"list", "np.ndarray"}

\* the for loop of an inverse operation: one search per full price, in order;
\* the first search that raises ends the call
RECURSIVE SolveEach(_, _, _, _, _)
SolveEach(Solve(_, _), self, full_prices, found, searches) ==
    IF full_prices = <<>>
    THEN [self |-> self, status |-> "ok", shape |-> "vector", value |-> found, path |-> "-",
          search |-> searches]
    ELSE Eval(Solve(self, Head(full_prices)), LAMBDA r :
           IF r.status # "ok" THEN [r EXCEPT !.search = searches \o r.search]
           ELSE SolveEach(Solve, r.self, Tail(full_prices), Append(found, r.value[1]),
                          searches \o r.search))

\* if len(ytms) == 1: return ytms[0]  else: return np.array(ytms)
ReturnSolved(solved) ==
    Bind(solved, LAMBDA r :
      IF Len(r.value) = 1 THEN [Return(r.self, r.value[1]) EXCEPT !.search = r.search]
      ELSE r)

\* clean_prices + accrued_amount, element by element
FullPrices(self, clean_prices) ==
    LET accrued_amount == RDiv(RMul(self.accrued_interest, self.par), self.face_amount)
    IN  [i \in 1..Len(clean_prices) |-> RAdd(clean_prices[i], accrued_amount)]

yield_to_maturity(self, settlement_date, clean_price, convention) ==
    IF clean_price.type \notin ScalarTypes \cup VectorTypes
    THEN Raise(self, PriceTypeError)
    ELSE Bind(calc_accrued_interest(self, settlement_date, 0), LAMBDA a :
      LET Solve(b, fp) == newton_f(b, settlement_date, fp, convention, 50)
      IN  ReturnSolved(SolveEach(Solve, a.self, FullPrices(a.self, clean_price.v), <<>>,
                                 <<>>)))

gSmall == <<1, 1000000>>   \* the floor of a time to maturity

full_price_from_oas(self, settlement_date, discount_curve, oas) ==
    Bind(calc_accrued_interest(self, settlement_date, 0), LAMBDA a :
      LET later == FlowsFrom(self, settlement_date)
          dt == self.coupon_dates[Max(later)]
          t == RMax(RNorm(dt - settlement_date, gDaysInYear), gSmall)
          df == curve_df(discount_curve, dt)
          r == RSub(RPow(df, RNeg(RInv(t))), ROne)
          df_adjusted == RPow(RAdd(ROne, RAdd(r, oas)), RNeg(t))
          pv == RMul(RMul(df_adjusted, self.redemption), self.par)
      IN  \* no flow visited: df_adjusted is read before it was ever assigned
          IF later = {} THEN Raise(a.self, UnboundLocalError)
          ELSE Return(a.self, pv))

\* _g: the objective of the price to OAS search
_g(oas, bond_, settlement_date, price, discount_curve) ==
    Bind(full_price_from_oas(bond_, settlement_date, discount_curve, oas), LAMBDA px :
      Return(px.self, RSub(px.value[1], price)))

\* scipy.optimize.newton(_g, x0=0.01, tol=1e-8, maxiter=50)
newton_g(self, settlement_date, full_price, discount_curve, maxiter) ==
    Searched("newton", maxiter, full_price,
      Bind(_g(<<1, 100>>, self, settlement_date, full_price, discount_curve), LAMBDA q0 :
        LET zeros == {o \in SolverSpreads :
                        _g(o, self, settlement_date, full_price, discount_curve).value[1] = RZero}
        IN  IF zeros = {} THEN Raise(q0.self, NonConvergence)
            ELSE Return(q0.self, CHOOSE o \in zeros : TRUE)))

option_adjusted_spread(self, settlement_date, clean_price, discount_curve) ==
    IF clean_price.type \notin ScalarTypes \cup VectorTypes
    THEN Raise(self, PriceTypeError)
    ELSE Bind(calc_accrued_interest(self, settlement_date, 0), LAMBDA a :
      LET Solve(b, fp) == newton_g(b, settlement_date, fp, discount_curve, 50)
      IN  ReturnSolved(SolveEach(Solve, a.self, FullPrices(a.self, clean_price.v), <<>>,
                                 <<>>)))

\* ------------------------------------------------------------------------
\* Default risk
\* ------------------------------------------------------------------------

full_price_from_survival_curve(self, settlement_date, discount_curve, survival_curve, recovery_rate) ==
    LET later == FlowsFrom(self, settlement_date)
        dt == self.coupon_dates[Max(later)]
        prevQ == ROne
        prevDf == ROne
        df == curve_df(discount_curve, dt)
        q == survival_prob(survival_curve, dt)
        dq == RSub(q, prevQ)
        defaultingPrincipalPVPayStart ==
            RAdd(RMul(RMul(RNeg(dq), recovery_rate), prevDf),
                 RMul(RMul(RNeg(dq), recovery_rate), df))
        defaultingPrincipalPVPayEnd == RZero
        pv == RAdd(RAdd(RMul(<<1, 2>>, defaultingPrincipalPVPayStart),
                        RMul(<<1, 2>>, defaultingPrincipalPVPayEnd)),
                   RMul(RMul(df, q), self.redemption))
    IN  \* no flow visited: df and q are read before they were ever assigned
        IF later = {} THEN Raise(self, UnboundLocalError)
        ELSE Return(self, RMul(pv, self.par))

clean_price_from_survival_curve(self, settlement_date, discount_curve, survival_curve, recovery_rate) ==
    Bind(calc_accrued_interest(self, settlement_date, 0), LAMBDA a :
    Bind(full_price_from_survival_curve(a.self, settlement_date, discount_curve,
                                        survival_curve, recovery_rate), LAMBDA fp :
      IF fp.self.accrued_interest = None THEN Raise(fp.self, NoneTypeError)
      ELSE Return(fp.self, RSub(fp.value[1], fp.self.accrued_interest))))

\* ------------------------------------------------------------------------
\* Holding period return
\* ------------------------------------------------------------------------

\* financepy.utils.math.npv(irr, times_cfs): sum of c / (1 + irr)^t over the
\* flows <<t, c>>
RECURSIVE npv(_, _)
npv(irr, times_cfs) ==
    IF times_cfs = <<>> THEN RZero
    ELSE LET t == Head(times_cfs)[1]
             c == Head(times_cfs)[2]
         IN  RAdd(IF c = RZero THEN RZero ELSE RDiv(c, RPow(RAdd(ROne, irr), t)),
                  npv(irr, Tail(times_cfs)))

\* a number the rationals of the model cannot hold: an irrational root
NotRational == <<0, 0>>

brentq_up_bound == <<5, 1>>
brentq_down_bound == <<-9999, 10000>>

\* what numpy leaves where a float64 is divided by zero
Inf == <<1, 0>>
NegInf == <<-1, 0>>
NaN == <<0, -1>>

\* a / b on numpy floats: division by zero gives inf or nan, not an exception
np_divide(a, b) ==
    IF b # RZero THEN RDiv(a, b)
    ELSE IF a = RZero THEN NaN
    ELSE IF a[1] > 0 THEN Inf ELSE NegInf

\* a < b on floats: every comparison with nan is false
np_less(a, b) ==
    IF a = NaN \/ b = NaN THEN FALSE
    ELSE IF a = NegInf \/ b = Inf THEN a # b
    ELSE IF a = Inf \/ b = NegInf THEN FALSE
    ELSE RLt(a, b)

np_less_equal(a, b) == np_less(a, b) \/ (a = b /\ a # NaN)

\* the flows of times_cfs whose amount is not zero
RECURSIVE LiveFlows(_)
LiveFlows(times_cfs) ==
    IF times_cfs = <<>> THEN <<>>
    ELSE (IF Head(times_cfs)[2] = RZero THEN <<>> ELSE <<Head(times_cfs)>>)
         \o LiveFlows(Tail(times_cfs))

\* the sign of npv(irr, times_cfs) for 1 + irr > 0.  Where a power is not a
\* rational number the flows are -c0 at time 0 and c1 at time p/q with c0 and
\* c1 positive, and the sign of c1 / (1 + irr)^(p/q) - c0 is the sign of
\* (c1 / c0)^q - (1 + irr)^p
npv_sign(irr, times_cfs) ==
    LET live == LiveFlows(times_cfs)
    IN  IF \A i \in 1..Len(live) : PowExact(RAdd(ROne, irr), live[i][1])
        THEN RSign(npv(irr, times_cfs))
        ELSE LET c0 == RNeg(live[1][2])
                 c1 == live[2][2]
                 t == live[2][1]
             IN  RSign(RSub(RPowInt(RDiv(c1, c0), t[2]), RPowInt(RAdd(ROne, irr), t[1])))

\* scipy.optimize.brentq(f, a, b, args=(), xtol=2e-12, rtol=8.9e-16,
\* maxiter=100, ...): the budget of a search that is not given one
brentq_maxiter == 100

\* scipy.optimize.brentq(npv, a, b, xtol=1e-8, args=(times_cfs,)): refuses a
\* bracket whose ends give the objective the same sign, else returns a zero
\* of the objective between the ends; roots holds the rational candidates
brentq(self, times_cfs, a, b, roots) ==
    Searched("brentq", brentq_maxiter, None,
      Eval(<<npv_sign(a, times_cfs), npv_sign(b, times_cfs)>>, LAMBDA f :
        LET inside == {x \in roots : RLe(a, x) /\ RLe(x, b) /\ npv(x, times_cfs) = RZero}
        IN  IF f[1] * f[2] > 0 THEN Raise(self, BadBracket)
            ELSE IF f[1] = 0 THEN Return(self, a)
            ELSE IF f[2] = 0 THEN Return(self, b)
            ELSE IF inside = {} THEN Return(self, NotRational)
            ELSE Return(self, CHOOSE x \in inside : TRUE)))

RECURSIVE SumFlows(_)
SumFlows(times_cfs) ==
    IF times_cfs = <<>> THEN RZero
    ELSE RAdd(Head(times_cfs)[2], SumFlows(Tail(times_cfs)))

\* [(d, c * par) for (d, c) in zip(coupon_dates, flow_amounts)
\*                if d >= begin_date and d < end_date], as <<time, flow>>
RECURSIVE CouponFlows(_, _, _, _)
CouponFlows(self, i, begin_date, end_date) ==
    IF i > Len(self.coupon_dates) THEN <<>>
    ELSE LET d == self.coupon_dates[i]
             rest == CouponFlows(self, i + 1, begin_date, end_date)
         IN  IF d >= begin_date /\ d < end_date
             THEN <<<<RNorm(d - begin_date, 365),
                      RMul(self.flow_amounts[i], self.par)>>>> \o rest
             ELSE rest

\* the tuple calc_ror returns, and the branch that produced its irr
ReturnRor(self, simple_return, irr, pnl, path, search) ==
    [self |-> self, status |-> "ok", shape |-> "tuple",
     value |-> <<simple_return, irr, pnl>>, path |-> path, search |-> search]

\* calc_ror leaving the root search out at the ends of the bracket too
calc_ror_closed(self, begin_date, end_date, begin_ytm, end_ytm, convention) ==
    Bind(full_price_from_ytm(self, begin_date, begin_ytm, convention), LAMBDA buy :
    Bind(full_price_from_ytm(buy.self, end_date, end_ytm, convention), LAMBDA sell :
      LET buy_price == buy.value[1]
          sell_price == sell.value[1]
          times_cfs == CouponFlows(self, 1, begin_date, end_date)
                       \o <<<<RZero, RNeg(buy_price)>>,
                            <<RNorm(end_date - begin_date, 365), sell_price>>>>
          \* the rational candidates for the zero of npv
          growth == RDiv(sell_price, buy_price)
          years == RNorm(gDaysInYear, end_date - begin_date)
          roots == IF end_date # begin_date /\ PowExact(growth, years)
                   THEN {RSub(RPow(growth, years), ROne)} ELSE {}
      IN  Eval(SumFlows(times_cfs), LAMBDA pnl :
          Eval(np_divide(RMul(RDiv(pnl, buy_price), R(365)), R(end_date - begin_date)),
               LAMBDA simple_return :
            IF np_less_equal(brentq_up_bound, simple_return)
               \/ np_less_equal(simple_return, brentq_down_bound)
            THEN ReturnRor(sell.self, simple_return, simple_return, pnl, "bypass", <<>>)
            ELSE Bind(brentq(sell.self, times_cfs, brentq_down_bound, brentq_up_bound,
                             roots), LAMBDA irr :
                   ReturnRor(sell.self, simple_return, irr.value[1], pnl, "brentq",
                             irr.search))))))

\* calc_ror falling back to the simple return when the root search raises
calc_ror_fallback(self, begin_date, end_date, begin_ytm, end_ytm, convention) ==
    Bind(full_price_from_ytm(self, begin_date, begin_ytm, convention), LAMBDA buy :
    Bind(full_price_from_ytm(buy.self, end_date, end_ytm, convention), LAMBDA sell :
      LET buy_price == buy.value[1]
          sell_price == sell.value[1]
          times_cfs == CouponFlows(self, 1, begin_date, end_date)
                       \o <<<<RZero, RNeg(buy_price)>>,
                            <<RNorm(end_date - begin_date, 365), sell_price>>>>
          growth == RDiv(sell_price, buy_price)
          years == RNorm(gDaysInYear, end_date - begin_date)
          roots == IF end_date # begin_date /\ PowExact(growth, years)
                   THEN {RSub(RPow(growth, years), ROne)} ELSE {}
      IN  Eval(SumFlows(times_cfs), LAMBDA pnl :
          Eval(np_divide(RMul(RDiv(pnl, buy_price), R(365)), R(end_date - begin_date)),
               LAMBDA simple_return :
            IF np_less(brentq_up_bound, simple_return)
               \/ np_less(simple_return, brentq_down_bound)
            THEN ReturnRor(sell.self, simple_return, simple_return, pnl, "bypass", <<>>)
            ELSE Eval(brentq(sell.self, times_cfs, brentq_down_bound, brentq_up_bound,
                             roots), LAMBDA irr :
                   IF irr.status # "ok"
                   THEN ReturnRor(sell.self, simple_return, simple_return, pnl, "brentq",
                                  irr.search)
                   ELSE ReturnRor(sell.self, simple_return, irr.value[1], pnl, "brentq",
                                  irr.search))))))

calc_ror(self, begin_date, end_date, begin_ytm, end_ytm, convention) ==
    Bind(full_price_from_ytm(self, begin_date, begin_ytm, convention), LAMBDA buy :
    Bind(full_price_from_ytm(buy.self, end_date, end_ytm, convention), LAMBDA sell :
      LET buy_price == buy.value[1]
          sell_price == sell.value[1]
          times_cfs == CouponFlows(self, 1, begin_date, end_date)
                       \o <<<<RZero, RNeg(buy_price)>>,
                            <<RNorm(end_date - begin_date, 365), sell_price>>>>
          \* the rational candidates for the zero of npv
          growth == RDiv(sell_price, buy_price)
          years == RNorm(gDaysInYear, end_date - begin_date)
          roots == IF end_date # begin_date /\ PowExact(growth, years)
                   THEN {RSub(RPow(growth, years), ROne)} ELSE {}
      IN  Eval(SumFlows(times_cfs), LAMBDA pnl :
          Eval(np_divide(RMul(RDiv(pnl, buy_price), R(365)), R(end_date - begin_date)),
               LAMBDA simple_return :
            IF np_less(brentq_up_bound, simple_return)
               \/ np_less(simple_return, brentq_down_bound)
            THEN ReturnRor(sell.self, simple_return, simple_return, pnl, "bypass", <<>>)
            ELSE Bind(brentq(sell.self, times_cfs, brentq_down_bound, brentq_up_bound,
                             roots), LAMBDA irr :
                   ReturnRor(sell.self, simple_return, irr.value[1], pnl, "brentq",
                             irr.search))))))

\* ------------------------------------------------------------------------
\* Calls and their arguments
\* ------------------------------------------------------------------------

Curve(valuation_date, rate) == [valuation_date |-> valuation_date, rate |-> rate]
Price(type, v) == [type |-> type, v |-> v]

IssueDate == gDaysInYear
IssuePrices == {R(60)}
FaceAmounts == {R(100), R(250)}

\* a 5% curve anchored at issue, one anchored a year later, a 0% curve
CurveAtIssue == Curve(IssueDate, <<1, 20>>)
CurveLater == Curve(IssueDate + gDaysInYear, <<1, 20>>)
CurveFlat == Curve(IssueDate, RZero)
SurvivalCurve == Curve(IssueDate, <<1, 10>>)
RecoveryRate == <<2, 5>>

\* a call: the operation and its arguments (those it does not take keep
\* the values of NoCall)
NoCall ==
    [ op |-> "-", d |-> 0, d2 |-> 0, y |-> RZero, y2 |-> RZero,
      conv |-> "ZERO", price |-> Price("float", <<>>), curve |-> Curve(0, RZero),
      surv |-> Curve(0, RZero), rr |-> RZero, oas |-> RZero, nex |-> 0,
      face |-> RZero ]

Exec(self, c) ==
    CASE c.op = "calc_accrued_interest" -> calc_accrued_interest(self, c.d, c.nex)
      [] c.op = "full_price_from_ytm" -> full_price_from_ytm(self, c.d, c.y, c.conv)
      [] c.op = "principal" -> principal(self, c.d, c.y, c.conv)
      [] c.op = "dollar_duration" -> dollar_duration(self, c.d, c.y, c.conv)
      [] c.op = "macauley_duration" -> macauley_duration(self, c.d, c.y, c.conv)
      [] c.op = "modified_duration" -> modified_duration(self, c.d, c.y, c.conv)
      [] c.op = "convexity_from_ytm" -> convexity_from_ytm(self, c.d, c.y, c.conv)
      [] c.op = "clean_price_from_ytm" -> clean_price_from_ytm(self, c.d, c.y, c.conv)
      [] c.op = "clean_price_from_discount_curve" ->
            clean_price_from_discount_curve(self, c.d, c.curve)
      [] c.op = "full_price_from_discount_curve" ->
            full_price_from_discount_curve(self, c.d, c.curve)
      [] c.op = "current_yield" -> current_yield(self, c.price.v[1])
      [] c.op = "yield_to_maturity" -> yield_to_maturity(self, c.d, c.price, c.conv)
      [] c.op = "full_price_from_oas" -> full_price_from_oas(self, c.d, c.curve, c.oas)
      [] c.op = "option_adjusted_spread" ->
            option_adjusted_spread(self, c.d, c.price, c.curve)
      [] c.op = "full_price_from_survival_curve" ->
            full_price_from_survival_curve(self, c.d, c.curve, c.surv, c.rr)
      [] c.op = "clean_price_from_survival_curve" ->
            clean_price_from_survival_curve(self, c.d, c.curve, c.surv, c.rr)
      [] c.op = "calc_ror" -> calc_ror(self, c.d, c.d2, c.y, c.y2, c.conv)

\* the make of a BondZero with the terms of self, as __init__ leaves it
Fresh(self) ==
    BondZero(self.issue_date, self.maturity_date, self.issue_price, self.face_amount)

\* The dates a caller passes, named by where they lie on the life of the bond
BeforeIssue(self) == self.issue_date - DateStep
TwoYearsLeft(self) == self.maturity_date - 2 * gDaysInYear
OneYearLeft(self) == self.maturity_date - gDaysInYear
TwoStepsLeft(self) == self.maturity_date - 2 * DateStep
LastStep(self) == self.maturity_date - DateStep
AfterMaturity(self) == self.maturity_date + DateStep

SettlementDates(self) ==
    { BeforeIssue(self), self.issue_date, TwoYearsLeft(self), OneYearLeft(self),
      LastStep(self), self.maturity_date, AfterMaturity(self) }

\* the dates on which a price from a yield is a rational number for every
\* yield: a whole number of years to maturity, or at most one year
YtmDates(self) == SettlementDates(self) \ {BeforeIssue(self)}

\* settlement date, yield, convention
YtmArgs(self) ==
    (YtmDates(self) \X {<<1, 20>>, <<1, 2>>} \X {"ZERO"})
    \cup ({OneYearLeft(self), AfterMaturity(self)} \X {<<1, 20>>} \X {"US_STREET"})

\* the yield 6.25% one year before maturity keeps every quotient of the bumped
\* prices within the integers of the model
RiskArgs(self) ==
    ({OneYearLeft(self), self.maturity_date, AfterMaturity(self)} \X {<<1, 16>>} \X {"ZERO"})
    \cup ({OneYearLeft(self)} \X {<<1, 16>>} \X {"US_STREET"})

\* settlement date, discount curve
CurveArgs(self) ==
    {BeforeIssue(self), OneYearLeft(self), self.maturity_date, AfterMaturity(self)}
    \X {CurveAtIssue, CurveLater}

SurvivalArgs(self) ==
    {self.issue_date, OneYearLeft(self), LastStep(self), self.maturity_date,
     AfterMaturity(self)} \X {CurveAtIssue}

\* settlement date, discount curve, spread: t = 1 takes any curve, t = 2 needs
\* a discount factor with a rational square root
OasArgs(self) ==
    ({OneYearLeft(self), AfterMaturity(self)} \X {CurveAtIssue, CurveFlat} \X SolverSpreads)
    \cup ({TwoYearsLeft(self)} \X {CurveFlat} \X {<<0, 1>>, <<1, 100>>})

\* the list of n prices that takes its elements from base in turn
PriceList(base, n) == [i \in 1..n |-> base[((i - 1) % Len(base)) + 1]]

\* the price arguments handed to an inverse operation, built on the prices
\* of the sequence base: scalars, lists and arrays, and a Python int
PriceArgs(base) ==
    {Price("float", <<base[i]>>) : i \in 1..Len(base)}
    \cup {Price("np.float64", <<base[1]>>)}
    \cup {Price("list", PriceList(base, n)) : n \in 0..MaxPrices}
    \cup {Price("np.ndarray", PriceList(base, n)) : n \in 1..(MaxPrices - 1)}
    \cup {Price("int", <<R(90)>>)}

\* clean prices that have a yield: those of the yields 0% and 50%
YtmPrices(self, d) ==
    [i \in 1..2 |->
        LET r == clean_price_from_ytm(Fresh(self), d, RNorm(i - 1, 2), "ZERO")
        IN  IF r.status = "ok" THEN r.value[1] ELSE R(90)]

\* the clean price whose full price is 0: no yield gives it
NoYieldPrice(self, d) ==
    LET a == calc_accrued_interest(Fresh(self), d, 0)
    IN  IF a.status = "ok" THEN RNeg(RDiv(RMul(a.value[1], self.par), self.face_amount))
        ELSE R(90)

\* settlement date, price, convention
YieldArgs(self) ==
    ({OneYearLeft(self)} \X PriceArgs(YtmPrices(self, OneYearLeft(self))) \X {"ZERO"})
    \cup {<<d, Price("float", <<YtmPrices(self, TwoYearsLeft(self))[2]>>), "ZERO">> :
            d \in {TwoYearsLeft(self), self.maturity_date, AfterMaturity(self)}}
    \cup {<<OneYearLeft(self), Price("float", <<NoYieldPrice(self, OneYearLeft(self))>>), "ZERO">>}
    \cup ({OneYearLeft(self)}
          \X {Price("float", <<R(90)>>), Price("int", <<R(90)>>), Price("list", <<>>)}
          \X {"US_STREET"})
    \cup {<<AfterMaturity(self), Price("float", <<R(90)>>), "US_STREET">>}

\* clean prices that have a spread: those of the spreads 0% and 1%
OasPrices(self, d, curve) ==
    [i \in 1..2 |->
        LET a == calc_accrued_interest(Fresh(self), d, 0)
            r == full_price_from_oas(Fresh(self), d, curve, RNorm(i - 1, 100))
        IN  IF r.status = "ok"
            THEN RSub(r.value[1], RDiv(RMul(a.value[1], self.par), self.face_amount))
            ELSE R(90)]

\* settlement date, price, discount curve
SpreadArgs(self) ==
    ({OneYearLeft(self)} \X PriceArgs(OasPrices(self, OneYearLeft(self), CurveAtIssue))
        \X {CurveAtIssue})
    \cup {<<TwoYearsLeft(self), Price("float", <<OasPrices(self, TwoYearsLeft(self), CurveFlat)[2]>>),
            CurveFlat>>}
    \cup {<<AfterMaturity(self), Price("float", <<R(90)>>), CurveAtIssue>>}

\* begin date, end date, buy yield, sell yield, convention: a holding period
\* of one year keeps the prices and the values at the bracket ends rational
RorArgs(self) ==
    ({TwoYearsLeft(self)} \X {OneYearLeft(self)}
        \X { <<R(2), RZero>>, <<R(2), <<1, 2>> >>, << <<1, 2>>, <<1, 2>> >>,
             <<RZero, R(9999)>>, <<RZero, R(19999)>> } \X {"ZERO"})
    \cup { <<p[1], p[2], <<RZero, RZero>>, "ZERO">> :
            p \in { <<OneYearLeft(self), self.maturity_date>>,
                    <<self.maturity_date, AfterMaturity(self)>>,
                    <<AfterMaturity(self), OneYearLeft(self)>> } }
    \cup ({TwoYearsLeft(self)} \X {OneYearLeft(self)} \X {<<RZero, RZero>>} \X {"US_STREET"})
    \* a holding period of a fifth of a year, ending a fifth of a year before
    \* maturity: growth 11/10, 10/11 and 3/2
    \cup ({TwoStepsLeft(self)} \X {LastStep(self)}
           \X { << <<1, 4>>, RZero >>, << RZero, <<1, 2>> >>, << <<5, 4>>, RZero >> }
           \X {"ZERO"})
    \* no holding period at all
    \cup ({OneYearLeft(self)} \X {OneYearLeft(self)}
           \X { <<RZero, RZero>>, << <<1, 2>>, RZero >> } \X {"ZERO"})

\* ------------------------------------------------------------------------
\* The state machine: one action per public operation
\* ------------------------------------------------------------------------

\* issue date, maturity date, issue price, face amount: maturities from a
\* fifth of a year before the issue date to MaxTenor years after it
InitArgs ==
    {<<IssueDate, m, ip, fa>> :
        m \in {IssueDate - DateStep} \cup {IssueDate + k * gDaysInYear : k \in 0..MaxTenor},
        ip \in IssuePrices, fa \in FaceAmounts}

\* no bond yet
Init ==
    /\ bond = None
    /\ result = [call |-> NoCall, found |-> "None", status |-> "ok", shape |-> "none",
                 value |-> <<>>, path |-> "-", search |-> <<>>]

\* the accrued interest of settlement date d by the terms of the bond
AccruedAt(self, d) ==
    RDiv(RMul(RDiv(RMul(RSub(self.par, self.issue_price), R(d - self.issue_date)),
                   R(self.maturity_date - self.issue_date)),
              self.face_amount),
         self.par)

\* what a call with settlement date d finds in the accrual cache
Found(self, d) ==
    IF self.accrued_interest = None THEN "None"
    ELSE IF self.accrued_interest = AccruedAt(self, d) THEN "this date"
    ELSE "another date"

\* the call c, which ended as r, becomes the state
Step(c, r) ==
    /\ bond' = r.self
    /\ result' = [call |-> c, found |-> Found(bond, c.d), status |-> r.status,
                  shape |-> r.shape, value |-> r.value, path |-> r.path,
                  search |-> r.search]

YtmCall(op, x) == [NoCall EXCEPT !.op = op, !.d = x[1], !.y = x[2], !.conv = x[3]]
CurveCall(op, x) == [NoCall EXCEPT !.op = op, !.d = x[1], !.curve = x[2]]
SurvivalCall(op, x) ==
    [NoCall EXCEPT !.op = op, !.d = x[1], !.curve = x[2], !.surv = SurvivalCurve,
                   !.rr = RecoveryRate]

\* the construction of the bond; the call record holds the issue date as d,
\* the maturity date as d2, the issue price as price
Do___init__ ==
    /\ bond = None
    /\ \E x \in InitArgs :
         /\ bond' = __init__(x[1], x[2], x[3], x[4]).self
         /\ result' = [call |-> [NoCall EXCEPT !.op = "__init__", !.d = x[1], !.d2 = x[2],
                                               !.price = Price("float", <<x[3]>>),
                                               !.face = x[4]],
                       found |-> "None", status |-> __init__(x[1], x[2], x[3], x[4]).status,
                       shape |-> "none", value |-> <<>>, path |-> "-", search |-> <<>>]

Do_calc_accrued_interest ==
    /\ bond # None
    /\ \E d \in SettlementDates(bond), n \in 0..MaxExDiv :
        Step([NoCall EXCEPT !.op = "calc_accrued_interest", !.d = d, !.nex = n],
             calc_accrued_interest(bond, d, n))

Do_full_price_from_ytm ==
    /\ bond # None
    /\ \E x \in YtmArgs(bond) :
        Step(YtmCall("full_price_from_ytm", x), full_price_from_ytm(bond, x[1], x[2], x[3]))

Do_principal ==
    /\ bond # None
    /\ \E x \in YtmArgs(bond) :
        Step(YtmCall("principal", x), principal(bond, x[1], x[2], x[3]))

Do_clean_price_from_ytm ==
    /\ bond # None
    /\ \E x \in YtmArgs(bond) :
        Step(YtmCall("clean_price_from_ytm", x), clean_price_from_ytm(bond, x[1], x[2], x[3]))

Do_dollar_duration ==
    /\ bond # None
    /\ \E x \in RiskArgs(bond) :
        Step(YtmCall("dollar_duration", x), dollar_duration(bond, x[1], x[2], x[3]))

Do_macauley_duration ==
    /\ bond # None
    /\ \E x \in RiskArgs(bond) :
        Step(YtmCall("macauley_duration", x), macauley_duration(bond, x[1], x[2], x[3]))

Do_modified_duration ==
    /\ bond # None
    /\ \E x \in RiskArgs(bond) :
        Step(YtmCall("modified_duration", x), modified_duration(bond, x[1], x[2], x[3]))

Do_convexity_from_ytm ==
    /\ bond # None
    /\ \E x \in RiskArgs(bond) :
        Step(YtmCall("convexity_from_ytm", x), convexity_from_ytm(bond, x[1], x[2], x[3]))

Do_full_price_from_discount_curve ==
    /\ bond # None
    /\ \E x \in CurveArgs(bond) :
        Step(CurveCall("full_price_from_discount_curve", x),
             full_price_from_discount_curve(bond, x[1], x[2]))

Do_clean_price_from_discount_curve ==
    /\ bond # None
    /\ \E x \in CurveArgs(bond) :
        Step(CurveCall("clean_price_from_discount_curve", x),
             clean_price_from_discount_curve(bond, x[1], x[2]))

Do_current_yield ==
    /\ bond # None
    /\ \E p \in {R(90), RZero} :
        Step([NoCall EXCEPT !.op = "current_yield", !.price = Price("float", <<p>>)],
             current_yield(bond, p))

Do_yield_to_maturity ==
    /\ bond # None
    /\ \E x \in YieldArgs(bond) :
        Step([NoCall EXCEPT !.op = "yield_to_maturity", !.d = x[1], !.price = x[2],
                            !.conv = x[3]],
             yield_to_maturity(bond, x[1], x[2], x[3]))

Do_full_price_from_oas ==
    /\ bond # None
    /\ \E x \in OasArgs(bond) :
        Step([NoCall EXCEPT !.op = "full_price_from_oas", !.d = x[1], !.curve = x[2],
                            !.oas = x[3]],
             full_price_from_oas(bond, x[1], x[2], x[3]))

Do_option_adjusted_spread ==
    /\ bond # None
    /\ \E x \in SpreadArgs(bond) :
        Step([NoCall EXCEPT !.op = "option_adjusted_spread", !.d = x[1], !.price = x[2],
                            !.curve = x[3]],
             option_adjusted_spread(bond, x[1], x[2], x[3]))

Do_full_price_from_survival_curve ==
    /\ bond # None
    /\ \E x \in SurvivalArgs(bond) :
        Step(SurvivalCall("full_price_from_survival_curve", x),
             full_price_from_survival_curve(bond, x[1], x[2], SurvivalCurve, RecoveryRate))

Do_clean_price_from_survival_curve ==
    /\ bond # None
    /\ \E x \in SurvivalArgs(bond) :
        Step(SurvivalCall("clean_price_from_survival_curve", x),
             clean_price_from_survival_curve(bond, x[1], x[2], SurvivalCurve, RecoveryRate))

Do_calc_ror ==
    /\ bond # None
    /\ \E x \in RorArgs(bond) :
        Step([NoCall EXCEPT !.op = "calc_ror", !.d = x[1], !.d2 = x[2], !.y = x[3][1],
                            !.y2 = x[3][2], !.conv = x[4]],
             calc_ror(bond, x[1], x[2], x[3][1], x[3][2], x[4]))

Next ==
    \/ Do___init__
    \/ Do_calc_accrued_interest
    \/ Do_full_price_from_ytm
    \/ Do_principal
    \/ Do_dollar_duration
    \/ Do_macauley_duration
    \/ Do_modified_duration
    \/ Do_convexity_from_ytm
    \/ Do_clean_price_from_ytm
    \/ Do_clean_price_from_discount_curve
    \/ Do_full_price_from_discount_curve
    \/ Do_current_yield
    \/ Do_yield_to_maturity
    \/ Do_full_price_from_oas
    \/ Do_option_adjusted_spread
    \/ Do_full_price_from_survival_curve
    \/ Do_clean_price_from_survival_curve
    \/ Do_calc_ror

Spec == Init /\ [][Next]_vars

\* ------------------------------------------------------------------------
\* Properties
\* ------------------------------------------------------------------------

\* the last call was to op
Called(op) == result.call.op = op

\* settlement date d lies in [issue_date, maturity_date)
InLife(self, d) == self.issue_date <= d /\ d < self.maturity_date

\* the accrued interest in par units, as the clean prices subtract it
InParUnits(self, accrued) == RDiv(RMul(accrued, self.par), self.face_amount)

\* C1: for issue_date <= d <= maturity_date, calc_accrued_interest(d) returns
\* and stores (par - issue_price) * (d - issue_date) / (maturity_date -
\* issue_date) * (face_amount / par): 0 at the issue date, (par - issue_price)
\* * face_amount / par at maturity, whatever num_ex_dividend_days and the day
\* count fraction are.
C1_AccruedInterestFormula ==
    (/\ Called("calc_accrued_interest")
     /\ bond.issue_date <= result.call.d
     /\ result.call.d <= bond.maturity_date)
    => LET d == result.call.d
           accretion == RSub(bond.par, bond.issue_price)
           expected ==
               RMul(RDiv(RMul(accretion, R(d - bond.issue_date)),
                         R(bond.maturity_date - bond.issue_date)),
                    RDiv(bond.face_amount, bond.par))
       IN  /\ result.status = "ok"
           /\ result.value = <<expected>>
           /\ bond.accrued_interest = expected
           /\ (d = bond.issue_date => result.value = <<RZero>>)
           /\ (d = bond.maturity_date
                 => result.value = <<RDiv(RMul(accretion, bond.face_amount), bond.par)>>)

\* C1 reached: accrual at maturity with an ex-dividend day, on a bond whose
\* face amount is not par; the ex-dividend date moved the accrual fraction,
\* the accrued interest is the full accretion all the same
C1_Witness ==
    /\ Called("calc_accrued_interest")
    /\ result.call.d = bond.maturity_date
    /\ result.call.nex = 1
    /\ bond.face_amount # bond.par
    /\ result.status = "ok"
    /\ bond.alpha # RSub(ROne, year_frac(bond.pcd[1], result.call.d, bond.ncd[1])[1])
    /\ result.value
         = <<RDiv(RMul(RSub(bond.par, bond.issue_price), bond.face_amount), bond.par)>>

\* the operations whose result depends on the accrued interest
AccruedOps ==
    { "principal", "clean_price_from_ytm", "clean_price_from_discount_curve",
      "clean_price_from_survival_curve", "yield_to_maturity", "option_adjusted_spread" }

\* C2: whatever was called on the bond before, an operation that depends on
\* accrued interest, called with d in [issue_date, maturity_date), ends as the
\* same call on a freshly constructed bond of the same terms ends; it never
\* computes with the unset (None) accrued interest, and whenever it refreshed
\* the cache the bond is left as the fresh bond is, holding the accrued
\* interest of d.
C2_AccruedOfSettlementDate ==
    (result.call.op \in AccruedOps /\ InLife(bond, result.call.d))
    => Eval(Exec(Fresh(bond), result.call), LAMBDA fresh :
         /\ result.status = fresh.status
         /\ result.shape = fresh.shape
         /\ result.value = fresh.value
         /\ result.status # NoneTypeError
         /\ (fresh.self.accrued_interest # None
               => /\ bond = fresh.self
                  /\ bond.accrued_interest = AccruedAt(bond, result.call.d)))

\* C2 reached: principal returned a value although the cache it found held
\* the accrued interest of another date
C2_Witness ==
    /\ Called("principal")
    /\ InLife(bond, result.call.d)
    /\ result.found = "another date"
    /\ result.status = "ok"
    /\ bond.accrued_interest = AccruedAt(bond, result.call.d)

\* the full price operation each clean price is built on
FullPriceOf(op) ==
    CASE op = "clean_price_from_ytm" -> "full_price_from_ytm"
      [] op = "clean_price_from_discount_curve" -> "full_price_from_discount_curve"
      [] op = "clean_price_from_survival_curve" -> "full_price_from_survival_curve"

\* C3: each of the three clean price operations returns its full price minus
\* the accrued interest in par units, full_price - accrued_interest * par /
\* face_amount, for every face amount.
C3_CleanIsFullMinusAccruedInPar ==
    (/\ result.call.op \in { "clean_price_from_ytm", "clean_price_from_discount_curve",
                             "clean_price_from_survival_curve" }
     /\ result.status = "ok")
    => Eval(Exec(bond, [result.call EXCEPT !.op = FullPriceOf(result.call.op)]),
            LAMBDA full :
              /\ full.status = "ok"
              /\ result.value
                   = <<RSub(full.value[1], InParUnits(bond, bond.accrued_interest))>>)

\* the last call, made with the scalar price p on a fresh bond
ScalarCall(p) == Exec(Fresh(bond), [result.call EXCEPT !.price = Price("float", <<p>>)])

\* C4: yield_to_maturity and option_adjusted_spread return a scalar for a
\* scalar price, and for a list or array of N >= 1 prices a vector of N
\* results, in order, each the result of the scalar call for that price; any
\* other type raises the type error with the accrual cache untouched.
C4_ShapeContract ==
    (result.call.op \in {"yield_to_maturity", "option_adjusted_spread"})
    => LET price == result.call.price
       IN  /\ (price.type \in ScalarTypes /\ result.status = "ok")
                => result.shape = "scalar"
           /\ (price.type \in VectorTypes /\ Len(price.v) >= 1 /\ result.status = "ok")
                => /\ result.shape = "vector"
                   /\ Len(result.value) = Len(price.v)
                   /\ \A i \in 1..Len(price.v) :
                        i <= Len(result.value)
                          => ScalarCall(price.v[i]).value = <<result.value[i]>>
           /\ (price.type \notin ScalarTypes \cup VectorTypes)
                => /\ result.status = PriceTypeError
                   /\ (result.found = "None" => bond.accrued_interest = None)

\* C5 (as the code has it): calc_ror leaves the root search out exactly when
\* the simple return is below -0.9999 or above 5, and then the irr is the
\* simple return; from -0.9999 to 5, both ends included, the root search is
\* run.
C5_BypassOutsideClosedBracket ==
    (Called("calc_ror") /\ result.status = "ok")
    => LET simple_return == result.value[1]
           irr == result.value[2]
           outside == np_less(simple_return, brentq_down_bound)
                      \/ np_less(brentq_up_bound, simple_return)
       IN  /\ result.path \in {"bypass", "brentq"}
           /\ result.path = "bypass" <=> outside
           /\ result.path = "bypass" => irr = simple_return

\* C5 reached: a simple return of exactly 5, and the root search was run
C5_Witness ==
    /\ Called("calc_ror")
    /\ result.status = "ok"
    /\ result.value[1] = brentq_up_bound
    /\ result.path = "brentq"

\* C5 as stated: the root search is left out whenever the simple return is
\* <= -0.9999 or >= 5, ends included, and run only strictly between them.
C5_BypassOutsideOpenInterval ==
    (Called("calc_ror") /\ result.status = "ok")
    => LET simple_return == result.value[1]
           irr == result.value[2]
           outside == np_less_equal(simple_return, brentq_down_bound)
                      \/ np_less_equal(brentq_up_bound, simple_return)
       IN  /\ outside => (result.path = "bypass" /\ irr = simple_return)
           /\ result.path = "brentq" => ~outside

\* C7: a discount curve pricing call with settlement before the valuation
\* date of the curve or after maturity raises the curve consistency error and
\* returns no price, whatever was called on the bond before; from the
\* valuation date to maturity the full price is par * redemption *
\* df(maturity) / df(settlement).
C7_CurveConsistencyError ==
    (result.call.op \in {"full_price_from_discount_curve",
                         "clean_price_from_discount_curve"})
    => LET d == result.call.d
           curve == result.call.curve
       IN  IF d < curve.valuation_date \/ d > bond.maturity_date
           THEN /\ result.status \in {CurveBeforeError, CurveAfterError}
                /\ result.value = <<>>
           ELSE /\ result.status = "ok"
                /\ Called("full_price_from_discount_curve")
                     => result.value
                          = <<RDiv(RMul(RMul(bond.par, bond.redemption),
                                        curve_df(curve, bond.maturity_date)),
                                   curve_df(curve, d))>>

\* the operations that price from a yield
YtmPricedOps ==
    { "full_price_from_ytm", "principal", "clean_price_from_ytm", "dollar_duration",
      "macauley_duration", "modified_duration", "convexity_from_ytm", "calc_ror" }

\* C8: an operation that prices from a yield, called with the ZERO convention
\* and a settlement date on or after maturity, raises "No coupons left" and
\* returns no price, on a fresh bond as after earlier calls.
C8_NoCouponsLeft ==
    (/\ result.call.op \in YtmPricedOps
     /\ result.call.conv = "ZERO"
     /\ \/ result.call.d >= bond.maturity_date
        \/ Called("calc_ror") /\ result.call.d2 >= bond.maturity_date)
    => /\ result.status = DegenerateScheduleError
       /\ result.value = <<>>

\* C9: calc_accrued_interest with a settlement date after maturity raises,
\* returns no value and stores no accrued interest, on a fresh bond and after
\* an earlier successful call alike.
C9_FailsAfterMaturity ==
    (Called("calc_accrued_interest") /\ result.call.d > bond.maturity_date)
    => /\ result.status # "ok"
       /\ result.value = <<>>
       /\ (result.found = "None" => bond.accrued_interest = None)

\* the operations that take a yield convention
ConventionOps == YtmPricedOps \cup {"yield_to_maturity"}

\* C10 (as the code has it): with a convention other than ZERO, every
\* operation that prices from a yield raises the convention error, returns no
\* value and leaves the bond as it was. yield_to_maturity comes to the
\* convention only in its root search: it raises the type error for a price
\* of another type, else refreshes the accrual cache and ends as that refresh
\* ends if it raises, else returns an empty vector for an empty list, else
\* raises the convention error, the cache refreshed.
C10_ConventionErrorInOrder ==
    [][ LET c == result'.call
        IN  (c.op \in ConventionOps /\ c.conv # "ZERO")
            => IF c.op # "yield_to_maturity"
               THEN /\ result'.status = ConventionError
                    /\ result'.value = <<>>
                    /\ bond' = bond
               ELSE IF c.price.type \notin ScalarTypes \cup VectorTypes
               THEN /\ result'.status = PriceTypeError
                    /\ bond' = bond
               ELSE Eval(calc_accrued_interest(bond, c.d, 0), LAMBDA refresh :
                      /\ bond' = refresh.self
                      /\ IF refresh.status # "ok"
                         THEN result'.status = refresh.status
                         ELSE IF c.price.v = <<>>
                         THEN result'.status = "ok" /\ result'.value = <<>>
                         ELSE result'.status = ConventionError /\ result'.value = <<>>)
      ]_vars

\* C10 reached: yield_to_maturity raised the convention error after it had
\* replaced the accrued interest of another date by that of its own
C10_Witness ==
    /\ Called("yield_to_maturity")
    /\ result.call.conv # "ZERO"
    /\ result.status = ConventionError
    /\ result.found = "another date"
    /\ bond.accrued_interest = AccruedAt(bond, result.call.d)

\* C10 as stated: with a convention other than ZERO every operation that takes
\* one raises the convention error and returns no value.
C10_ConventionErrorAlways ==
    (result.call.op \in ConventionOps /\ result.call.conv # "ZERO")
    => /\ result.status = ConventionError
       /\ result.value = <<>>

\* ---- root searches ----

\* the holding period of the last call to calc_ror, in years, and the growth
\* sell_price / buy_price over it
HoldingYears == RNorm(result.call.d2 - result.call.d, 365)
Growth ==
    RDiv(full_price_from_ytm(bond, result.call.d2, result.call.y2, result.call.conv).value[1],
         full_price_from_ytm(bond, result.call.d, result.call.y, result.call.conv).value[1])

\* the sign of the net present value of the two flows of the last call to
\* calc_ror at the rate x: with t = p/q, that of growth^q - (1 + x)^p
NpvSignAt(x) ==
    RSign(RSub(RPowInt(Growth, HoldingYears[2]), RPowInt(RAdd(ROne, x), HoldingYears[1])))

\* x is a zero of the objective of the search s of the last call
IsRoot(s, x) ==
    CASE Called("yield_to_maturity") ->
           full_price_from_ytm(bond, result.call.d, x, result.call.conv).value = <<s.target>>
      [] Called("option_adjusted_spread") ->
           full_price_from_oas(bond, result.call.d, result.call.curve, x).value = <<s.target>>
      [] Called("calc_ror") -> x = NotRational \/ NpvSignAt(x) = 0

\* the errors by which a solver gives up
FailedToSolve == {NonConvergence, BadBracket}

\* the values the searches of the last call returned, in order
Solved == [i \in 1..Len(result.search) |-> result.search[i].value[1]]

NamedErrors ==
    { ConstructionError, ConventionError, CurveBeforeError, CurveAfterError,
      DegenerateScheduleError, MalformedInstrumentError, PriceTypeError,
      NonConvergence, BadBracket }

\* x is a finite number: a rational, or an irrational root
IsFinite(x) == x = NotRational \/ x[2] > 0

\* C12: every call, after every history, returns finite numbers or raises one
\* of the named errors: no None, NaN or infinity is returned, no other
\* exception escapes, whatever the settlement date and the holding period.
C12_ResultOrNamedError ==
    (result.call.op # "-")
    => \/ /\ result.status = "ok"
          /\ \A i \in 1..Len(result.value) : IsFinite(result.value[i])
       \/ result.status \in NamedErrors

\* ---- the bond and its terms ----

\* the fields that hold the terms of the bond
TermFields ==
    { "issue_date", "maturity_date", "accrual_type", "face_amount", "issue_price", "par",
      "redemption", "freq_type", "coupon_dates", "payment_dates", "flow_amounts" }

\* the operations that do not touch the bond
ReadOnlyOps ==
    { "current_yield", "full_price_from_discount_curve", "full_price_from_survival_curve" }

\* C13: a construction with issue_date >= maturity_date raises the
\* construction error and leaves no bond; any other leaves the bond of its
\* arguments with par 100, redemption 1, coupon and payment dates [issue_date,
\* maturity_date], flows [0, 0] and an empty accrual cache.  Every bond has
\* issue_date < maturity_date, no operation changes a field that holds a term
\* (operations write the accrual cache only), and current_yield,
\* full_price_from_discount_curve and full_price_from_survival_curve change
\* nothing.
C13_TermsFixedAtConstruction ==
    [][ LET c == result'.call
        IN  /\ c.op = "__init__"
                 => IF c.d >= c.d2
                    THEN result'.status = ConstructionError /\ bond' = None
                    ELSE /\ result'.status = "ok"
                         /\ bond'.issue_date = c.d
                         /\ bond'.maturity_date = c.d2
                         /\ bond'.issue_price = c.price.v[1]
                         /\ bond'.face_amount = c.face
                         /\ bond'.par = R(100)
                         /\ bond'.redemption = ROne
                         /\ bond'.coupon_dates = <<c.d, c.d2>>
                         /\ bond'.payment_dates = <<c.d, c.d2>>
                         /\ bond'.flow_amounts = <<RZero, RZero>>
                         /\ bond'.accrued_interest = None
            /\ bond' # None => bond'.issue_date < bond'.maturity_date
            /\ c.op # "__init__"
                 => /\ bond # None
                    /\ bond' # None
                    /\ \A f \in TermFields : bond'[f] = bond[f]
            /\ c.op \in ReadOnlyOps => bond' = bond
      ]_vars

\* C13 reached: after a construction and a call that left an accrued interest
\* in the cache, a call for another date has replaced it; the terms are those
\* of the construction
C13_Witness ==
    /\ bond # None
    /\ result.call.op \notin ReadOnlyOps \cup {"__init__"}
    /\ result.found = "another date"
    /\ bond.accrued_interest = AccruedAt(bond, result.call.d)
    /\ bond.issue_date = IssueDate
    /\ bond.coupon_dates = <<bond.issue_date, bond.maturity_date>>
    /\ bond.par = R(100)

\* ---- calls one after another on one bond ----

\* C14: in any order of calls on one bond, one after another, every call ends
\* as it does when run alone, on a newly constructed bond of the same terms,
\* and a call that returns a value less accrued interest has subtracted the
\* accrued interest of its own settlement date.
C14_SameAsRunAlone ==
    (result.call.op \notin {"-", "__init__"})
    => Eval(Exec(Fresh(bond), result.call), LAMBDA alone :
         /\ result.status = alone.status
         /\ result.shape = alone.shape
         /\ result.value = alone.value
         /\ (result.call.op \in AccruedOps /\ result.status = "ok")
              => bond.accrued_interest = AccruedAt(bond, result.call.d))

\* ---- the bracket of calc_ror ----

\* C15: whenever calc_ror enters the bracketed root search with begin_date <
\* end_date < maturity_date, the net present value of its two flows does not
\* have the same sign at -0.9999 and at 5, and the search returns an irr at
\* which the net present value is zero; so for holding periods under a year.
C15_BracketHasSignChange ==
    (/\ Called("calc_ror")
     /\ result.search # <<>>
     /\ result.call.d < result.call.d2
     /\ result.call.d2 < bond.maturity_date)
    => /\ NpvSignAt(brentq_down_bound) * NpvSignAt(brentq_up_bound) <= 0
       /\ result.status = "ok"
       /\ result.path = "brentq"
       /\ IsRoot(result.search[1], result.value[2])

====
